---- MODULE Spec2Model ----
(***************************************************************************)
(* Model of fs/cifssrv/auth.c: NTLMSSP blob codec, NTLMv1/NTLMv2 verifiers, *)
(* SMB3 signing-key derivation, the three packet signers and the           *)
(* pre-authentication integrity hasher, over a per-connection cache of     *)
(* crypto contexts.  Byte strings are sequences of integers 0..255.        *)
(***************************************************************************)
EXTENDS Integers, Sequences, FiniteSets, Bags, TLC

VARIABLES
    dialect,            \* server->dialect
    netbios_name,       \* global configuration string (bytes, no NUL)
    secmech,            \* server->secmech: slot name -> [tfm, sdesc, key, data]
    nalloc,             \* number of transforms handed out so far (fresh handle ids)
    client_flags,       \* sess->ntlmssp.client_flags (set of bit numbers)
    cryptkey,           \* sess->ntlmssp.cryptkey, 8 bytes
    sess_key,           \* sess->sess_key, 40 bytes
    sequence_number,    \* sess->sequence_number
    smb3signingkey,     \* chann->smb3signingkey, 16 bytes
    srvPreauth,         \* server->Preauth_HashValue, 64 bytes
    sessPreauth,        \* sess->Preauth_HashValue, 64 bytes
    last,               \* the last call: [op, rc, fault, out, len, hdr, inj]
    authInfo,           \* what the last decode_authenticate handed to a verifier
    preauthLog,         \* buffers hashed into srvPreauth so far, in order
    derived,            \* inputs and result of every successful key derivation
    nops,               \* number of calls made so far
    nfail,              \* number of signing-side calls in which a step was made to fail
    conc                \* requests in flight: [serial, srv2, live, req]

vars == <<dialect, netbios_name, secmech, nalloc, client_flags, cryptkey,
          sess_key, sequence_number, smb3signingkey, srvPreauth, sessPreauth,
          last, authInfo, preauthLog, derived, nops, nfail, conc>>

(***************************************************************************)
(* Bounds of the exploration.                                              *)
(***************************************************************************)
\* calls of the session-setup entry points in one behaviour of Spec
MaxOps == 2

\* calls of the signing-side entry points in one behaviour of SpecSign
MaxSignOps == 3

\* signing-side calls in which the environment makes an allocation or a
\* primitive step fail
MaxSignFail == 1

(***************************************************************************)
(* Sizes and codes from the headers, as used in auth.c.                    *)
(***************************************************************************)
CIFS_CRYPTO_KEY_SIZE == 8
CIFS_AUTH_RESP_SIZE == 24
CIFS_NTHASH_SIZE == 16
CIFS_ENCPWD_SIZE == 16
CIFS_HMAC_MD5_HASH_SIZE == 16
CIFS_SMB1_SESSKEY_SIZE == 16
SMB2_NTLMV2_SESSKEY_SIZE == 16
SMB2_HMACSHA256_SIZE == 32
SMB2_CMACAES_SIZE == 16
SMB3_SIGN_KEY_SIZE == 16
SESS_KEY_SIZE == 40
PREAUTH_HASHVALUE_SIZE == 64
P21_SIZE == 21
NAME_UNITS == 8
EINVAL == 22
ENOMEM == 12
SMB311_PROT_ID == 785
SMB30_PROT_ID == 768
SMB2_PREAUTH_INTEGRITY_SHA512 == 1
NTLMSSP_AV_NB_COMPUTER_NAME == 1
NTLMSSP_AV_DNS_DOMAIN_NAME == 4
NtLmChallenge == 2

(***************************************************************************)
(* Byte-string helpers.                                                    *)
(***************************************************************************)
Zeros(n) == [i \in 1..n |-> 0] \o <<>>

Fill(n, b) == [i \in 1..n |-> b] \o <<>>

\* memset left out: the buffer keeps what it held
memset_skipped(buf, c, n) == buf

\* memset(buf, c, n) on a byte array
memset(buf, c, n) == SubSeq(Fill(n, c), 1, n) \o SubSeq(buf, n + 1, Len(buf))

\* memcpy(dst + off, src, Len(src)) on a byte array (off is 0-based)
Memcpy(dst, off, src) ==
    SubSeq(dst, 1, off) \o src \o SubSeq(dst, off + Len(src) + 1, Len(dst))

\* the n bytes at 0-based offset off
Bytes(buf, off, n) == SubSeq(buf, off + 1, off + n)

LE16(v) == <<v % 256, (v \div 256) % 256>>

LE32(v) == <<v % 256, (v \div 256) % 256, (v \div 65536) % 256, (v \div 16777216) % 256>>

BE32(v) == <<(v \div 16777216) % 256, (v \div 65536) % 256, (v \div 256) % 256, v % 256>>

ReadLE16(buf, off) == buf[off + 1] + 256 * buf[off + 2]

ReadLE32(buf, off) ==
    buf[off + 1] + 256 * buf[off + 2] + 65536 * buf[off + 3] + 16777216 * buf[off + 4]

\* be32_to_cpu
ReadBE32(buf, off) ==
    16777216 * buf[off + 1] + 65536 * buf[off + 2] + 256 * buf[off + 3] + buf[off + 4]

\* memcmp(a, b, n): sign of the first difference
RECURSIVE MemcmpFrom(_, _, _, _)
MemcmpFrom(a, b, i, n) ==
    IF i > n THEN 0
    ELSE IF a[i] < b[i] THEN -1
    ELSE IF a[i] > b[i] THEN 1
    ELSE MemcmpFrom(a, b, i + 1, n)

memcmp(a, b, n) == MemcmpFrom(a, b, 1, n)

\* strncmp(a, b, n): like memcmp, but the comparison ends at a NUL that both hold
RECURSIVE StrncmpFrom(_, _, _, _)
StrncmpFrom(a, b, i, n) ==
    IF i > n THEN 0
    ELSE IF a[i] < b[i] THEN -1
    ELSE IF a[i] > b[i] THEN 1
    ELSE IF a[i] = 0 THEN 0
    ELSE StrncmpFrom(a, b, i + 1, n)

strncmp(a, b, n) == StrncmpFrom(a, b, 1, n)

(***************************************************************************)
(* The external primitives (MD4, MD5, DES E_P24, HMAC-MD5, HMAC-SHA256,    *)
(* CMAC-AES, SHA-512) are consumed as black boxes.  They are modelled as   *)
(* one deterministic mixing function of (algorithm, key, data) expanded to *)
(* the digest size of the algorithm.                                       *)
(***************************************************************************)
\* position weight of the mixing function
MixWeight(i) == ((i * 40503) % 8191) + 1

\* position-weighted sum of the bytes of s (the size of the bag that holds
\* position i that many times)
MixSum(s) == BagCardinality([i \in 1..Len(s) |-> (s[i] + 1) * MixWeight(i)])

Mix(alg, s) == (alg * 65537 + Len(s) * 257 + MixSum(s)) % 8388593

DigestByte(h, i) ==
    LET d == IF i % 3 = 1 THEN 1 ELSE IF i % 3 = 2 THEN 256 ELSE 65536
    IN  ((h \div d) + ((i - 1) \div 3) * 37) % 256

Digest(alg, s, n) ==
    LET h == Mix(alg, s) IN [i \in 1..n |-> DigestByte(h, i)] \o <<>>

AlgId(name) ==
    CASE name = "md4" -> 11
      [] name = "md5" -> 12
      [] name = "des" -> 13
      [] name = "hmacmd5" -> 14
      [] name = "hmacsha256" -> 15
      [] name = "cmacaes" -> 16
      [] name = "sha512" -> 17

DigestSize(name) ==
    CASE name = "md4" -> 16
      [] name = "md5" -> 16
      [] name = "des" -> CIFS_AUTH_RESP_SIZE
      [] name = "hmacmd5" -> CIFS_HMAC_MD5_HASH_SIZE
      [] name = "hmacsha256" -> SMB2_HMACSHA256_SIZE
      [] name = "cmacaes" -> SMB2_CMACAES_SIZE
      [] name = "sha512" -> PREAUTH_HASHVALUE_SIZE

\* the primitive `name` keyed by key (<<>> for an unkeyed hash) over data
Mac(name, key, data) ==
    Digest(AlgId(name), <<Len(key)>> \o key \o data, DigestSize(name))

smb_mdfour(in) == Mac("md4", <<>>, in)

E_P24(p21, c8) == Mac("des", p21, c8)

(***************************************************************************)
(* Crypto contexts.  A slot of server->secmech is the transform handle     *)
(* (tfm, 0 = NULL), the descriptor handle (sdesc, 0 = NULL), the key last  *)
(* set on the transform and the data fed to the descriptor since init.     *)
(***************************************************************************)
Slots == {"md5", "hmacmd5", "hmacsha256", "cmacaes", "sha512"}

NullSlot == [tfm |-> 0, sdesc |-> 0, key |-> <<>>, data |-> <<>>]

AllocOutcomes == {"ok", "tfm_fail", "desc_fail"}

\* an allocator that would return -ENOMEM for the descriptor without
\* releasing the transform
AllocSlot_leaky(slot, populated, outcome, n) ==
    IF populated THEN [slot |-> slot, rc |-> 0, n |-> n]
    ELSE IF outcome = "tfm_fail"
        THEN [slot |-> [slot EXCEPT !.tfm = 0], rc |-> -ENOMEM, n |-> n]
    ELSE IF outcome = "desc_fail"
        THEN [slot |-> [slot EXCEPT !.tfm = n + 1], rc |-> -ENOMEM, n |-> n + 1]
    ELSE [slot |-> [tfm |-> n + 1, sdesc |-> n + 1, key |-> <<>>, data |-> <<>>],
          rc |-> 0, n |-> n + 1]

\* body shared by the five crypto_*_alloc functions; populated is the
\* "already allocated" test of the caller
AllocSlot(slot, populated, outcome, n) ==
    IF populated THEN [slot |-> slot, rc |-> 0, n |-> n]
    ELSE IF outcome = "tfm_fail"
        THEN [slot |-> [slot EXCEPT !.tfm = 0], rc |-> -ENOMEM, n |-> n]
    ELSE IF outcome = "desc_fail"
        THEN [slot |-> NullSlot, rc |-> -ENOMEM, n |-> n + 1]
    ELSE [slot |-> [tfm |-> n + 1, sdesc |-> n + 1, key |-> <<>>, data |-> <<>>],
          rc |-> 0, n |-> n + 1]

crypto_md5_alloc(slot, outcome, n) == AllocSlot(slot, slot.tfm # 0, outcome, n)

crypto_hmacmd5_alloc(slot, outcome, n) == AllocSlot(slot, slot.sdesc # 0, outcome, n)

crypto_hmacsha256_alloc(slot, outcome, n) == AllocSlot(slot, slot.tfm # 0, outcome, n)

crypto_cmac_alloc(slot, outcome, n) == AllocSlot(slot, slot.sdesc # 0, outcome, n)

crypto_sha512_alloc(slot, outcome, n) == AllocSlot(slot, slot.sdesc # 0, outcome, n)

\* one step of a handler on a context
Step(op, arg) == [op |-> op, arg |-> arg]

\* the state of a run over one context: the slot, the last finalize output,
\* the return code and whether a NULL context was dereferenced
Run(slot) == [slot |-> slot, out |-> <<>>, rc |-> 0, fault |-> FALSE]

\* crypto_shash_setkey / _init / _update / _final, and kzalloc of a scratch buffer
ApplyStep(r, alg, s) ==
    CASE s.op = "setkey" -> [r EXCEPT !.slot.key = s.arg]
      [] s.op = "init"   -> [r EXCEPT !.slot.data = <<>>]
      [] s.op = "update" -> [r EXCEPT !.slot.data = @ \o s.arg]
      [] s.op = "final"  -> [r EXCEPT !.out = Mac(alg, r.slot.key, r.slot.data)]
      [] s.op = "kzalloc" -> r

\* the handle a step goes through is NULL
StepOnNull(slot, s) ==
    CASE s.op = "setkey" -> slot.tfm = 0
      [] s.op = "kzalloc" -> FALSE
      [] OTHER -> slot.sdesc = 0

\* the steps of a handler in program order; the step numbered failAt
\* (base + position) reports an error and the handler leaves through "goto out"
RECURSIVE RunSteps(_, _, _, _, _, _)
RunSteps(r, alg, steps, i, base, failAt) ==
    IF i > Len(steps) THEN r
    ELSE IF StepOnNull(r.slot, steps[i]) THEN [r EXCEPT !.fault = TRUE]
    ELSE IF base + i = failAt
        THEN [r EXCEPT !.rc = IF steps[i].op = "kzalloc" THEN -ENOMEM ELSE -EINVAL]
    ELSE RunSteps(ApplyStep(r, alg, steps[i]), alg, steps, i + 1, base, failAt)

(***************************************************************************)
(* Unicode helpers of the server (ASCII range).                            *)
(***************************************************************************)
UNICODE_LEN(x) == 2 * x

\* smb_strtoUTF16: every character becomes one little-endian 16-bit unit
smb_strtoUTF16(str) ==
    [i \in 1..(2 * Len(str)) |-> IF i % 2 = 1 THEN str[(i + 1) \div 2] ELSE 0] \o <<>>

\* UniStrupr on little-endian units
UniStrupr(u) ==
    [i \in 1..Len(u) |->
        IF i % 2 = 1 /\ u[i + 1] = 0 /\ u[i] >= 97 /\ u[i] <= 122 THEN u[i] - 32 ELSE u[i]] \o <<>>

\* number of 16-bit units before the first NUL unit, at most max
RECURSIVE UnitsFrom(_, _, _)
UnitsFrom(b, k, max) ==
    IF k >= max THEN max
    ELSE IF b[2 * k + 1] = 0 /\ b[2 * k + 2] = 0 THEN k
    ELSE UnitsFrom(b, k + 1, max)

\* smb_strndup_from_utf16(src, maxlen, true, nls): the string up to the first
\* NUL unit or maxlen bytes
smb_strndup_from_utf16(b, maxlen) ==
    LET n == UnitsFrom(b, 0, maxlen \div 2) IN [i \in 1..n |-> b[2 * i - 1]] \o <<>>

(***************************************************************************)
(* The user credential of the session (sess->usr), read-only.              *)
(***************************************************************************)
usr == [name |-> <<98, 111, 98>>,
        passkey |-> <<142, 27, 3, 201, 77, 5, 250, 19, 64, 8, 113, 90, 33, 176, 2, 59>>]

(***************************************************************************)
(* Credential verifiers.                                                   *)
(***************************************************************************)
\* last index strncmp(a, b, n) looks at
RECURSIVE StrncmpReach(_, _, _, _)
StrncmpReach(a, b, i, n) ==
    IF i >= n \/ a[i] # b[i] \/ a[i] = 0 THEN i ELSE StrncmpReach(a, b, i + 1, n)

\* process_ntlm(sess, pw_buf): pw_buf are the 24 bytes at the pointer, of which
\* only the first readable ones are inside the received buffer; desFail is
\* E_P24 reporting an error; oobFault is the out-of-buffer read faulting
process_ntlm(sk, seq, pw_buf, readable, desFail, oobFault) ==
    LET p21 == Memcpy(Zeros(P21_SIZE), 0, Bytes(usr.passkey, 0, CIFS_NTHASH_SIZE))
        key == E_P24(p21, cryptkey)
        sk1 == Memcpy(sk, 0, Bytes(smb_mdfour(usr.passkey), 0, CIFS_SMB1_SESSKEY_SIZE))
        sk2 == Memcpy(sk1, CIFS_SMB1_SESSKEY_SIZE, key)
        oob == StrncmpReach(pw_buf, key, 1, CIFS_AUTH_RESP_SIZE) > readable
    IN  IF desFail
            THEN [rc |-> -EINVAL, fault |-> FALSE, sess_key |-> sk, sequence_number |-> seq]
        ELSE IF oob /\ oobFault
            THEN [rc |-> 0, fault |-> TRUE, sess_key |-> sk2, sequence_number |-> 1]
        ELSE [rc |-> IF strncmp(pw_buf, key, CIFS_AUTH_RESP_SIZE) # 0 THEN -EINVAL ELSE 0,
              fault |-> FALSE, sess_key |-> sk2, sequence_number |-> 1]

\* calc_ntlmv2_hash(sess, ntlmv2_hash, dname): steps 1..7
calc_ntlmv2_hash(slot, dname, failAt) ==
    IF slot.sdesc = 0 THEN [Run(slot) EXCEPT !.rc = -1]
    ELSE
    LET len == Len(usr.name)
        uniname == IF len # 0 THEN UniStrupr(smb_strtoUTF16(usr.name)) ELSE <<>>
        domain == smb_strtoUTF16(dname)
    IN  RunSteps(Run(slot), "hmacmd5",
                 << Step("setkey", Bytes(usr.passkey, 0, CIFS_ENCPWD_SIZE)),
                    Step("init", <<>>),
                    Step("kzalloc", <<>>),
                    Step("update", Bytes(uniname, 0, UNICODE_LEN(len))),
                    Step("kzalloc", <<>>),
                    Step("update", Bytes(domain, 0, UNICODE_LEN(Len(dname)))),
                    Step("final", <<>>) >>,
                 1, 0, failAt)

\* the session key taken over the NTLMv2 hash instead of the response value
compute_sess_key_over_hash(slot, sk, hash, hmac, alloc, n, base, failAt) ==
    LET a == crypto_hmacmd5_alloc(slot, alloc, n)
        r == RunSteps(Run(a.slot), "hmacmd5",
                 << Step("setkey", Bytes(hash, 0, CIFS_HMAC_MD5_HASH_SIZE)),
                    Step("init", <<>>),
                    Step("update", Bytes(hash, 0, SMB2_NTLMV2_SESSKEY_SIZE)),
                    Step("final", <<>>) >>,
                 1, base, failAt)
    IN  IF a.rc # 0
            THEN [slot |-> a.slot, n |-> a.n, rc |-> a.rc, fault |-> FALSE, sess_key |-> sk]
        ELSE [slot |-> r.slot, n |-> a.n, rc |-> r.rc, fault |-> r.fault,
              sess_key |-> IF r.rc = 0 /\ ~r.fault THEN Memcpy(sk, 0, r.out) ELSE sk]

\* compute_sess_key(sess, hash, hmac): steps base+1..base+4; the finalize
\* writes the first 16 bytes of sess->sess_key
compute_sess_key(slot, sk, hash, hmac, alloc, n, base, failAt) ==
    LET a == crypto_hmacmd5_alloc(slot, alloc, n)
        r == RunSteps(Run(a.slot), "hmacmd5",
                 << Step("setkey", Bytes(hash, 0, CIFS_HMAC_MD5_HASH_SIZE)),
                    Step("init", <<>>),
                    Step("update", Bytes(hmac, 0, SMB2_NTLMV2_SESSKEY_SIZE)),
                    Step("final", <<>>) >>,
                 1, base, failAt)
    IN  IF a.rc # 0
            THEN [slot |-> a.slot, n |-> a.n, rc |-> a.rc, fault |-> FALSE, sess_key |-> sk]
        ELSE [slot |-> r.slot, n |-> a.n, rc |-> r.rc, fault |-> r.fault,
              sess_key |-> IF r.rc = 0 /\ ~r.fault THEN Memcpy(sk, 0, r.out) ELSE sk]

\* result of a verifier run over the HMAC-MD5 slot
VRes(slot, n, rc, fault, sk) ==
    [slot |-> slot, n |-> n, rc |-> rc, fault |-> fault, sess_key |-> sk]

\* process_ntlmv2(sess, ntlmv2, blen, domain_name).  ntlmv2 are the bytes at
\* the pointer (16-byte response value, then the client blob); sameptr is the
\* test domain_name == netbios_name; rdFault is an out-of-buffer read of the
\* blob faulting.  Steps: calc_ntlmv2_hash 1..7, key-set 8, init 9, scratch
\* allocation 10, update 11, finalize 12, compute_sess_key 13..16.
process_ntlmv2(slot, n, sk, ntlmv2, blen, domain_name, sameptr, alloc, failAt, rdFault) ==
    LET a == crypto_hmacmd5_alloc(slot, alloc, n)
        h == IF sameptr THEN calc_ntlmv2_hash(a.slot, netbios_name, failAt)
             ELSE calc_ntlmv2_hash(a.slot, domain_name, failAt)
        ntlmv2_hash == h.out
        r2 == RunSteps(Run(h.slot), "hmacmd5",
                  << Step("setkey", Bytes(ntlmv2_hash, 0, CIFS_HMAC_MD5_HASH_SIZE)),
                     Step("init", <<>>) >>,
                  1, 7, failAt)
        len == CIFS_CRYPTO_KEY_SIZE + blen
        construct == Bytes(cryptkey, 0, CIFS_CRYPTO_KEY_SIZE)
                        \o Bytes(ntlmv2, CIFS_HMAC_MD5_HASH_SIZE, blen)
        r3 == RunSteps(Run(r2.slot), "hmacmd5",
                  << Step("kzalloc", <<>>),
                     Step("update", construct),
                     Step("final", <<>>) >>,
                  1, 9, failAt)
        ntlmv2_rsp == r3.out
        c == compute_sess_key(r3.slot, sk, ntlmv2_hash, ntlmv2_rsp, alloc, a.n, 12, failAt)
    IN  IF a.rc # 0 THEN VRes(a.slot, a.n, a.rc, FALSE, sk)
        ELSE IF h.rc # 0 \/ h.fault THEN VRes(h.slot, a.n, h.rc, h.fault, sk)
        ELSE IF r2.rc # 0 \/ r2.fault THEN VRes(r2.slot, a.n, r2.rc, r2.fault, sk)
        \* kzalloc(len) of a negative int is a huge size_t and fails
        ELSE IF len < 0 THEN VRes(r2.slot, a.n, -ENOMEM, FALSE, sk)
        \* negative blen with len >= 0: the copies run past the scratch buffer
        ELSE IF blen < 0 THEN VRes(r2.slot, a.n, 0, TRUE, sk)
        ELSE IF failAt = 10 THEN VRes(r2.slot, a.n, -ENOMEM, FALSE, sk)
        ELSE IF rdFault THEN VRes(r2.slot, a.n, 0, TRUE, sk)
        ELSE IF r3.rc # 0 \/ r3.fault THEN VRes(r3.slot, a.n, r3.rc, r3.fault, sk)
        ELSE IF c.rc # 0 \/ c.fault THEN VRes(c.slot, c.n, c.rc, c.fault, c.sess_key)
        ELSE VRes(c.slot, c.n,
                  memcmp(Bytes(ntlmv2, 0, CIFS_HMAC_MD5_HASH_SIZE), ntlmv2_rsp,
                         CIFS_HMAC_MD5_HASH_SIZE),
                  FALSE, c.sess_key)

NumV2Steps == 16

(***************************************************************************)
(* NTLMSSP wire messages (layout of ntlmssp.h).                            *)
(***************************************************************************)
NTLMSSP_SIGNATURE == <<78, 84, 76, 77, 83, 83, 80, 0>>

SIZEOF_NEGOTIATE_MESSAGE == 32
SIZEOF_CHALLENGE_MESSAGE == 48
SIZEOF_AUTHENTICATE_MESSAGE == 64

\* 0-based offsets of the fields the code reads or writes
NEG_NegotiateFlags == 12
AUTH_NtChallengeResponse == 20
AUTH_DomainName == 28
CHG_MessageType == 8
CHG_TargetName == 12
CHG_NegotiateFlags == 20
CHG_Challenge == 24
CHG_TargetInfoArray == 40

\* SECURITY_BUFFER {Length:u16, MaximumLength:u16, BufferOffset:u32}
SecBuf(len, max, off) == LE16(len) \o LE16(max) \o LE32(off)

SecBufLength(buf, field) == ReadLE16(buf, field)

SecBufMaximumLength(buf, field) == ReadLE16(buf, field + 2)

SecBufOffset(buf, field) == ReadLE32(buf, field + 4)

\* a 32-bit flag word as the set of its bit numbers, and its four LE bytes
FlagByte(S, k) ==
    LET bit(b) == IF (8 * k + b) \in S THEN 1 ELSE 0
    IN  bit(0) + 2 * bit(1) + 4 * bit(2) + 8 * bit(3)
        + 16 * bit(4) + 32 * bit(5) + 64 * bit(6) + 128 * bit(7)

FlagBytes(S) == [k \in 1..4 |-> FlagByte(S, k - 1)] \o <<>>

Pow2(b) ==
    CASE b = 0 -> 1 [] b = 1 -> 2 [] b = 2 -> 4 [] b = 3 -> 8
      [] b = 4 -> 16 [] b = 5 -> 32 [] b = 6 -> 64 [] b = 7 -> 128

ReadFlags(buf, off) ==
    {b \in 0..31 : (buf[off + 1 + (b \div 8)] \div Pow2(b % 8)) % 2 = 1}

NTLMSSP_NEGOTIATE_UNICODE == 0
NTLMSSP_REQUEST_TARGET == 2
NTLMSSP_NEGOTIATE_NTLM == 9
NTLMSSP_TARGET_TYPE_SERVER == 17
NTLMSSP_NEGOTIATE_TARGET_INFO == 23
NTLMSSP_NEGOTIATE_VERSION == 25
NTLMSSP_NEGOTIATE_128 == 29
NTLMSSP_NEGOTIATE_56 == 31

\* the bytes an access of n bytes at 0-based offset off yields: the buffer's
\* own bytes inside it, the neighbouring memory (junk) beyond its end
ReadAt(buf, off, n, junk) ==
    [i \in 1..n |-> IF off + i <= Len(buf) THEN buf[off + i] ELSE junk] \o <<>>

\* how many of the n bytes at off lie inside the buffer
Readable(buf, off, n) ==
    IF off >= Len(buf) THEN 0 ELSE IF off + n <= Len(buf) THEN n ELSE Len(buf) - off

InBounds(buf, off, n) == off + n <= Len(buf)

(***************************************************************************)
(* NTLMSSP blob codec.                                                     *)
(***************************************************************************)
\* the negotiate decoder without its signature test
decode_ntlmssp_negotiate_blob_unsigned(negblob, flags) ==
    IF Len(negblob) < SIZEOF_NEGOTIATE_MESSAGE
        THEN [rc |-> -EINVAL, client_flags |-> flags]
    ELSE [rc |-> 0, client_flags |-> ReadFlags(negblob, NEG_NegotiateFlags)]

\* decode_ntlmssp_negotiate_blob(negblob, blob_len, sess)
decode_ntlmssp_negotiate_blob(negblob, flags) ==
    IF Len(negblob) < SIZEOF_NEGOTIATE_MESSAGE
        THEN [rc |-> -EINVAL, client_flags |-> flags]
    ELSE IF memcmp(negblob, NTLMSSP_SIGNATURE, 8) # 0
        THEN [rc |-> -EINVAL, client_flags |-> flags]
    ELSE [rc |-> 0, client_flags |-> ReadFlags(negblob, NEG_NegotiateFlags)]

NoVerifier(blob_len) ==
    [verifier |-> "none", blob_len |-> blob_len, nt_off |-> 0, nt_len |-> 0,
     dom_off |-> 0, dom_len |-> 0, blen |-> 0, nt |-> <<>>, name |-> <<>>]

\* result of decode_authenticate: the HMAC-MD5 slot, the session fields and
\* the descriptor values handed on
ARes(rc, fault, slot, n, sk, seq, info) ==
    [rc |-> rc, fault |-> fault, slot |-> slot, n |-> n, sess_key |-> sk,
     sequence_number |-> seq, info |-> info]

\* decode_ntlmssp_authenticate_blob(authblob, blob_len, sess).  ub is what an
\* access beyond the end of the received buffer does: "fault", or it reads
\* neighbouring memory holding "zeros" or "junk"
decode_ntlmssp_authenticate_blob(authblob, slot, n, sk, seq, alloc, failAt, ub) ==
    IF Len(authblob) < SIZEOF_AUTHENTICATE_MESSAGE
        THEN ARes(-EINVAL, FALSE, slot, n, sk, seq, NoVerifier(Len(authblob)))
    ELSE IF memcmp(authblob, NTLMSSP_SIGNATURE, 8) # 0
        THEN ARes(-EINVAL, FALSE, slot, n, sk, seq, NoVerifier(Len(authblob)))
    ELSE
    LET ntLen  == SecBufLength(authblob, AUTH_NtChallengeResponse)
        ntOff  == SecBufOffset(authblob, AUTH_NtChallengeResponse)
        domLen == SecBufLength(authblob, AUTH_DomainName)
        domOff == SecBufOffset(authblob, AUTH_DomainName)
        junk   == IF ub = "junk" THEN 170 ELSE 0
        info(v, nt, name) ==
                   [verifier |-> v, blob_len |-> Len(authblob), nt_off |-> ntOff,
                    nt_len |-> ntLen, dom_off |-> domOff, dom_len |-> domLen,
                    blen |-> ntLen - CIFS_ENCPWD_SIZE, nt |-> nt, name |-> name]
    IN  IF ntLen = CIFS_AUTH_RESP_SIZE
        THEN LET pw_buf == ReadAt(authblob, ntOff, CIFS_AUTH_RESP_SIZE, junk)
                 v == process_ntlm(sk, seq, pw_buf,
                          Readable(authblob, ntOff, CIFS_AUTH_RESP_SIZE),
                          failAt = 1, ub = "fault")
             IN  ARes(v.rc, v.fault, slot, n, v.sess_key, v.sequence_number,
                      info("process_ntlm", pw_buf, <<>>))
        ELSE IF ~InBounds(authblob, domOff, domLen) /\ ub = "fault"
        THEN ARes(0, TRUE, slot, n, sk, seq, NoVerifier(Len(authblob)))
        ELSE LET domain_name == smb_strndup_from_utf16(
                                    ReadAt(authblob, domOff, domLen, junk), domLen)
                 blen == ntLen - CIFS_ENCPWD_SIZE
                 ntlmv2 == ReadAt(authblob, ntOff,
                                  CIFS_ENCPWD_SIZE + (IF blen > 0 THEN blen ELSE 0), junk)
                 v == process_ntlmv2(slot, n, sk, ntlmv2, blen, domain_name, FALSE,
                          alloc, failAt,
                          ub = "fault" /\ ~InBounds(authblob, ntOff, ntLen))
             IN  ARes(v.rc, v.fault, v.slot, v.n, v.sess_key, seq,
                      info("process_ntlmv2", ntlmv2, domain_name))

\* the target-info loop of build_ntlmssp_challenge_blob: one attribute per
\* type value from type to NTLMSSP_AV_DNS_DOMAIN_NAME; st is the buffer, the
\* byte position of tinfo and TargetInfoArray.Length accumulated so far
RECURSIVE TargetInfoLoop(_, _, _, _)
TargetInfoLoop(st, type, name, len) ==
    IF type > NTLMSSP_AV_DNS_DOMAIN_NAME THEN st
    ELSE TargetInfoLoop(
            [buf |-> Memcpy(st.buf, st.tinfo, LE16(type) \o LE16(len) \o name),
             tinfo |-> st.tinfo + 4 + len,
             length |-> (st.length + 4 + len) % 65536],
            type + 1, name, len)

\* build_ntlmssp_challenge_blob(chgblob, sess): chgblob is the caller's
\* buffer, rand the bytes get_random_bytes yields; a server name that does
\* not fit the local array name[8] (with its terminator) overruns the stack
\* (ub: "fault", or "intact" when the overrun hits nothing that is used)
build_ntlmssp_challenge_blob(chgblob, flagsIn, rand, ub) ==
    LET flags == {NTLMSSP_NEGOTIATE_UNICODE, NTLMSSP_NEGOTIATE_NTLM,
                  NTLMSSP_TARGET_TYPE_SERVER, NTLMSSP_NEGOTIATE_TARGET_INFO,
                  NTLMSSP_NEGOTIATE_128, NTLMSSP_NEGOTIATE_56,
                  NTLMSSP_NEGOTIATE_VERSION}
                 \cup (IF NTLMSSP_REQUEST_TARGET \in flagsIn
                       THEN {NTLMSSP_REQUEST_TARGET} ELSE {})
        b1 == Memcpy(chgblob, 0, NTLMSSP_SIGNATURE)
        b2 == Memcpy(b1, CHG_MessageType, LE32(NtLmChallenge))
        b3 == Memcpy(b2, CHG_NegotiateFlags, FlagBytes(flags))
        name == smb_strtoUTF16(netbios_name)
        len == UNICODE_LEN(Len(netbios_name))
        b4 == Memcpy(b3, CHG_TargetName, SecBuf(len, len, SIZEOF_CHALLENGE_MESSAGE))
        b5 == Memcpy(b4, CHG_Challenge, Bytes(rand, 0, CIFS_CRYPTO_KEY_SIZE))
        b6 == Memcpy(b5, CHG_TargetInfoArray + 4, LE32(SIZEOF_CHALLENGE_MESSAGE + len))
        b7 == Memcpy(b6, SIZEOF_CHALLENGE_MESSAGE, name)
        lp == TargetInfoLoop([buf |-> b7, tinfo |-> SIZEOF_CHALLENGE_MESSAGE + len,
                              length |-> 0],
                             NTLMSSP_AV_NB_COMPUTER_NAME, name, len)
        b8 == Memcpy(lp.buf, lp.tinfo, LE16(0) \o LE16(0))
        length == (lp.length + 4) % 65536
        b9 == Memcpy(b8, CHG_TargetInfoArray, LE16(length) \o LE16(length))
    IN  IF Len(netbios_name) + 1 > NAME_UNITS /\ ub = "fault"
            THEN [buf |-> b3, blob_len |-> 0, cryptkey |-> cryptkey, fault |-> TRUE]
        ELSE [buf |-> b9, blob_len |-> SIZEOF_CHALLENGE_MESSAGE + len + length,
              cryptkey |-> Bytes(rand, 0, CIFS_CRYPTO_KEY_SIZE), fault |-> FALSE]

(***************************************************************************)
(* Packet signers.  Each returns the context slot after the call, the      *)
(* return code, whether a NULL context was dereferenced, and the signature *)
(* (<<>> when none was produced).                                          *)
(***************************************************************************)
SRes(slot, n, rc, fault, sig) ==
    [slot |-> slot, n |-> n, rc |-> rc, fault |-> fault, sig |-> sig]

\* a handler's result from the run r over its context
Signed(r, n) ==
    SRes(r.slot, n, r.rc, r.fault, IF r.rc = 0 /\ ~r.fault THEN r.out ELSE <<>>)

\* smb1_sign_smbpdu(sess, buf, sz, sig): steps init 1, update 2, update 3, finalize 4
smb1_sign_smbpdu(slot, sk, buf, alloc, n, failAt) ==
    LET a == crypto_md5_alloc(slot, alloc, n)
    IN  IF a.rc # 0 THEN SRes(a.slot, a.n, a.rc, FALSE, <<>>)
        ELSE Signed(RunSteps(Run(a.slot), "md5",
                        << Step("init", <<>>),
                           Step("update", Bytes(sk, 0, SESS_KEY_SIZE)),
                           Step("update", buf),
                           Step("final", <<>>) >>,
                        1, 0, failAt), a.n)

\* smb2_sign_smbpdu(sess, buf, sz, sig): steps key-set 1, init 2, update 3, finalize 4
smb2_sign_smbpdu(slot, sk, buf, alloc, n, failAt) ==
    LET a == crypto_hmacsha256_alloc(slot, alloc, n)
    IN  IF a.rc # 0 THEN SRes(a.slot, a.n, a.rc, FALSE, <<>>)
        ELSE Signed(RunSteps(Run(a.slot), "hmacsha256",
                        << Step("setkey", Bytes(sk, 0, SMB2_NTLMV2_SESSKEY_SIZE)),
                           Step("init", <<>>),
                           Step("update", buf),
                           Step("final", <<>>) >>,
                        1, 0, failAt), a.n)

\* the primitive steps of smb3_sign_smbpdu in program order
Smb3SignSteps(signingkey, buf) ==
    << Step("setkey", Bytes(signingkey, 0, SMB2_CMACAES_SIZE)),
       Step("init", <<>>),
       Step("update", buf),
       Step("final", <<>>) >>

\* smb3_sign_smbpdu(chann, buf, sz, sig): steps key-set 1, init 2, update 3,
\* finalize 4, on the CMAC context as it is (no allocation call)
smb3_sign_smbpdu(slot, signingkey, buf, n, failAt) ==
    Signed(RunSteps(Run(slot), "cmacaes", Smb3SignSteps(signingkey, buf), 1, 0, failAt), n)

(***************************************************************************)
(* Key deriver.                                                            *)
(***************************************************************************)
LabelSMBSigningKey == <<83, 77, 66, 83, 105, 103, 110, 105, 110, 103, 75, 101, 121, 0>>

LabelSMB2AESCMAC == <<83, 77, 66, 50, 65, 69, 83, 67, 77, 65, 67, 0>>

ContextSmbSign == <<83, 109, 98, 83, 105, 103, 110, 0>>

NumKdfSteps == 8

\* the context update taking the fixed string whatever the dialect
KdfContext_fixed(d, preauth) == ContextSmbSign

\* the context the key deriver feeds: the session's pre-authentication hash
\* for SMB 3.1.1, the fixed string otherwise
KdfContext(d, preauth) ==
    IF d = SMB311_PROT_ID THEN Bytes(preauth, 0, PREAUTH_HASHVALUE_SIZE)
    ELSE ContextSmbSign

\* the primitive steps of compute_smb3xsigningkey in program order
KdfSteps(sk, d, preauth) ==
    LET i == <<0, 0, 0, 1>>
        L == <<0, 0, 0, 128>>
    IN  << Step("setkey", Bytes(sk, 0, SMB2_NTLMV2_SESSKEY_SIZE)),
           Step("init", <<>>),
           Step("update", i),
           Step("update", IF d = SMB311_PROT_ID THEN LabelSMBSigningKey
                          ELSE LabelSMB2AESCMAC),
           Step("update", <<0>>),
           Step("update", KdfContext(d, preauth)),
           Step("update", L),
           Step("final", <<>>) >>

\* compute_smb3xsigningkey(sess, key, key_size): hs and cs are the
\* HMAC-SHA256 and CMAC slots, key the output field before the call.
\* Steps: key-set 1, init 2, updates 3..7 (i, label, zero, context, L),
\* finalize 8.
compute_smb3xsigningkey(hs, cs, n, sk, d, preauth, key, key_size, alloc1, alloc2, failAt) ==
    LET key0 == memset(key, 0, key_size)
        a1 == crypto_hmacsha256_alloc(hs, alloc1, n)
        a2 == crypto_cmac_alloc(cs, alloc2, a1.n)
        r == RunSteps(Run(a1.slot), "hmacsha256", KdfSteps(sk, d, preauth), 1, 0, failAt)
    IN  IF a1.rc # 0
            THEN [hs |-> a1.slot, cs |-> cs, n |-> a1.n, rc |-> a1.rc, fault |-> FALSE,
                  key |-> key0]
        ELSE IF a2.rc # 0
            THEN [hs |-> a1.slot, cs |-> a2.slot, n |-> a2.n, rc |-> a2.rc,
                  fault |-> FALSE, key |-> key0]
        ELSE [hs |-> r.slot, cs |-> a2.slot, n |-> a2.n, rc |-> r.rc, fault |-> r.fault,
              key |-> IF r.rc = 0 /\ ~r.fault
                      THEN Memcpy(key0, 0, Bytes(r.out, 0, key_size)) ELSE key0]

(***************************************************************************)
(* Pre-authentication integrity hasher.                                    *)
(***************************************************************************)
\* the hasher without the update over the running hash
calc_preauth_integrity_hash_unchained(slot, n, running, hash_id, buf, alloc, failAt) ==
    LET msg_size == ReadBE32(buf, 0)
        all_bytes_msg == Bytes(buf, 4, msg_size)
        a == crypto_sha512_alloc(slot, alloc, n)
    IN  IF hash_id # SMB2_PREAUTH_INTEGRITY_SHA512 THEN SRes(slot, n, -1, FALSE, <<>>)
        ELSE IF a.rc # 0 THEN SRes(a.slot, a.n, a.rc, FALSE, <<>>)
        ELSE Signed(RunSteps(Run(a.slot), "sha512",
                        << Step("init", <<>>),
                           Step("update", all_bytes_msg),
                           Step("final", <<>>) >>,
                        1, 0, failAt), a.n)

\* calc_preauth_integrity_hash(server, hash_id, buf, pi_hash): buf starts
\* with the 4-byte big-endian length, ProtocolId follows.  Steps: init 1,
\* update 2 (running hash), update 3 (message), finalize 4.
calc_preauth_integrity_hash(slot, n, running, hash_id, buf, alloc, failAt) ==
    LET msg_size == ReadBE32(buf, 0)
        all_bytes_msg == Bytes(buf, 4, msg_size)
        a == crypto_sha512_alloc(slot, alloc, n)
    IN  IF hash_id # SMB2_PREAUTH_INTEGRITY_SHA512 THEN SRes(slot, n, -1, FALSE, <<>>)
        ELSE IF a.rc # 0 THEN SRes(a.slot, a.n, a.rc, FALSE, <<>>)
        ELSE Signed(RunSteps(Run(a.slot), "sha512",
                        << Step("init", <<>>),
                           Step("update", Bytes(running, 0, PREAUTH_HASHVALUE_SIZE)),
                           Step("update", all_bytes_msg),
                           Step("final", <<>>) >>,
                        1, 0, failAt), a.n)

\* the caller's part of the running hash: a computed value replaces the
\* stored one, a failed call leaves it
update_preauth_hash(rc, pi_hash, stored) == IF rc = 0 THEN pi_hash ELSE stored

(***************************************************************************)
(* What the clients send and what the environment decides.                 *)
(***************************************************************************)
ServerNames == { <<70, 83, 82, 86>>,                                \* "FSRV"
                 <<70, 73, 76, 69, 83, 69, 82, 86, 69, 82>> }       \* "FILESERVER"

Dialects == {SMB30_PROT_ID, SMB311_PROT_ID}

Challenges == { <<66, 2, 3, 4, 5, 6, 7, 8>>, <<1, 2, 3, 4, 5, 6, 7, 8>> }

ClientDomain == <<68, 79, 77>>                                      \* "DOM"

ClientBlob == <<1, 1, 0, 0, 9, 9>>

ChgBufSize == 172

\* what the caller's response buffer holds before the challenge is built
ChgBufInit == Fill(ChgBufSize, 238)

\* the responses a client that knows the password computes
RefNtlmResponse(c) ==
    Mac("des", usr.passkey \o Zeros(P21_SIZE - CIFS_NTHASH_SIZE), c)

RefNtlmv2Hash(dname) ==
    Mac("hmacmd5", usr.passkey, UniStrupr(smb_strtoUTF16(usr.name)) \o smb_strtoUTF16(dname))

RefNtlmv2Response(c, dname, blob) == Mac("hmacmd5", RefNtlmv2Hash(dname), c \o blob)

RefNtlmv2SessKey(c, dname, blob) ==
    Mac("hmacmd5", RefNtlmv2Hash(dname), RefNtlmv2Response(c, dname, blob))

\* seq with the byte at position p changed
Mutate(seq, p) == [seq EXCEPT ![p] = (@ + 1) % 256]

NegotiateMsg(sig, flags) ==
    sig \o LE32(1) \o FlagBytes(flags) \o SecBuf(0, 0, 0) \o SecBuf(0, 0, 0)

NegotiateInputs ==
    { NegotiateMsg(NTLMSSP_SIGNATURE, {NTLMSSP_NEGOTIATE_UNICODE, NTLMSSP_REQUEST_TARGET}),
      NegotiateMsg(NTLMSSP_SIGNATURE, {NTLMSSP_NEGOTIATE_UNICODE, NTLMSSP_NEGOTIATE_56}),
      NegotiateMsg(Mutate(NTLMSSP_SIGNATURE, 8), {NTLMSSP_REQUEST_TARGET}),
      Bytes(NegotiateMsg(NTLMSSP_SIGNATURE, {NTLMSSP_REQUEST_TARGET}), 0,
            SIZEOF_NEGOTIATE_MESSAGE - 1),
      Bytes(NegotiateMsg(Mutate(NTLMSSP_SIGNATURE, 1), {NTLMSSP_REQUEST_TARGET}), 0, 12) }

AuthenticateMsg(sig, ntLen, ntOff, domLen, domOff, payload) ==
    sig \o LE32(3) \o SecBuf(0, 0, 0) \o SecBuf(ntLen, ntLen, ntOff)
        \o SecBuf(domLen, domLen, domOff) \o SecBuf(0, 0, 0) \o SecBuf(0, 0, 0)
        \o SecBuf(0, 0, 0) \o FlagBytes({NTLMSSP_NEGOTIATE_UNICODE}) \o payload

\* an NTLMv1 Authenticate message carrying resp
NtlmMsg(resp) ==
    AuthenticateMsg(NTLMSSP_SIGNATURE, CIFS_AUTH_RESP_SIZE, SIZEOF_AUTHENTICATE_MESSAGE,
                    0, SIZEOF_AUTHENTICATE_MESSAGE, resp)

\* an NTLMv2 Authenticate message: domain name, then response value and blob
Ntlmv2Msg(dname, rsp, blob) ==
    LET d == smb_strtoUTF16(dname)
    IN  AuthenticateMsg(NTLMSSP_SIGNATURE, Len(rsp) + Len(blob),
                        SIZEOF_AUTHENTICATE_MESSAGE + Len(d), Len(d),
                        SIZEOF_AUTHENTICATE_MESSAGE, d \o rsp \o blob)

\* the byte positions of the NTLMv1 response at which a client's response
\* is made to differ from the expected one
MutatedPositions == {1, 14, 15, CIFS_AUTH_RESP_SIZE}

In(buf, alloc, failAt) == [buf |-> buf, alloc |-> alloc, failAt |-> failAt]

\* Authenticate messages against the challenge c, with the point at which
\* the environment makes a step fail (0: none)
AuthInputs(c) ==
    LET r1 == RefNtlmResponse(c)
        r2 == RefNtlmv2Response(c, ClientDomain, ClientBlob)
        r3 == RefNtlmv2Response(c, netbios_name, ClientBlob)
        ok2 == Ntlmv2Msg(ClientDomain, r2, ClientBlob)
        bad2 == Ntlmv2Msg(ClientDomain, Mutate(r2, 16), ClientBlob)
    IN  { In(NtlmMsg(r1), "ok", f) : f \in 0..1 }
        \cup { In(NtlmMsg(Mutate(r1, p)), "ok", 0) : p \in MutatedPositions }
        \cup { In(Bytes(NtlmMsg(r1), 0, SIZEOF_AUTHENTICATE_MESSAGE - 1), "ok", 0),
               In(Memcpy(NtlmMsg(r1), 0, Mutate(NTLMSSP_SIGNATURE, 3)), "ok", 0),
               \* NtChallengeResponse reaching 8 bytes past the end of the message
               In(AuthenticateMsg(NTLMSSP_SIGNATURE, CIFS_AUTH_RESP_SIZE,
                                  SIZEOF_AUTHENTICATE_MESSAGE + 8, 0, 0, r1), "ok", 0) }
        \cup { In(ok2, a, 0) : a \in AllocOutcomes }
        \cup { In(ok2, "ok", f) : f \in 1..NumV2Steps }
        \cup { In(bad2, "ok", f) : f \in {0, NumV2Steps} }
        \cup { In(Ntlmv2Msg(netbios_name, r3, ClientBlob), "ok", 0),
               In(Ntlmv2Msg(ClientDomain, r2, Mutate(ClientBlob, 2)), "ok", 0),
               In(Ntlmv2Msg(ClientDomain, Mutate(r2, 1), ClientBlob), "ok", 0),
               \* response shorter than the 16-byte response value
               In(Ntlmv2Msg(ClientDomain, Bytes(r2, 0, 10), <<>>), "ok", 0),
               In(Ntlmv2Msg(ClientDomain, Bytes(r2, 0, 4), <<>>), "ok", 0),
               \* NtChallengeResponse reaching past the end of the message
               In(AuthenticateMsg(NTLMSSP_SIGNATURE, 16 + Len(ClientBlob),
                                  SIZEOF_AUTHENTICATE_MESSAGE + 6, 6,
                                  SIZEOF_AUTHENTICATE_MESSAGE,
                                  smb_strtoUTF16(ClientDomain) \o r2 \o ClientBlob), "ok", 0),
               \* DomainName reaching past the end of the message
               In(AuthenticateMsg(NTLMSSP_SIGNATURE, 16 + Len(ClientBlob),
                                  SIZEOF_AUTHENTICATE_MESSAGE, 6,
                                  SIZEOF_AUTHENTICATE_MESSAGE + 20,
                                  r2 \o ClientBlob), "ok", 0) }

\* whether decoding buf dereferences a descriptor that leaves the buffer
LeavesBuffer(buf) ==
    /\ Len(buf) >= SIZEOF_AUTHENTICATE_MESSAGE
    /\ \/ ~InBounds(buf, SecBufOffset(buf, AUTH_NtChallengeResponse),
                    SecBufLength(buf, AUTH_NtChallengeResponse))
       \/ /\ SecBufLength(buf, AUTH_NtChallengeResponse) # CIFS_AUTH_RESP_SIZE
          /\ ~InBounds(buf, SecBufOffset(buf, AUTH_DomainName),
                       SecBufLength(buf, AUTH_DomainName))

UBOutcomes(buf) == IF LeavesBuffer(buf) THEN {"fault", "zeros", "junk"} ELSE {"zeros"}

\* the requests the dispatcher hands to this code: request r arrives on
\* channel r of the session
Requests == {1, 2}

\* a request before it starts
ReqIdle ==
    [op |-> "none", pc |-> "idle", i |-> 0, key |-> Zeros(SMB3_SIGN_KEY_SIZE),
     out |-> <<>>, rc |-> 0, fault |-> FALSE, allocated |-> {}]

\* no request in flight
NoConc ==
    [serial |-> TRUE, srv2 |-> NullSlot, live |-> {}, req |-> [r \in Requests |-> ReqIdle]]

\* record of a call: its return code, whether it faulted, its output bytes,
\* the length and leading bytes of its input, and whether the environment
\* made one of its steps fail
Last(op, rc, fault, out, len, hdr, inj) ==
    [op |-> op, rc |-> rc, fault |-> fault, out |-> out, len |-> len,
     hdr |-> hdr, inj |-> inj]

Hdr(buf) ==
    SubSeq(buf, 1, IF Len(buf) < SIZEOF_AUTHENTICATE_MESSAGE THEN Len(buf)
                   ELSE SIZEOF_AUTHENTICATE_MESSAGE)

(***************************************************************************)
(* Initial state: a fresh connection and session.                          *)
(***************************************************************************)
Init ==
    /\ dialect = SMB30_PROT_ID
    /\ netbios_name \in ServerNames
    /\ secmech = [s \in Slots |-> NullSlot]
    /\ nalloc = 0
    /\ client_flags = {}
    /\ cryptkey = Zeros(CIFS_CRYPTO_KEY_SIZE)
    /\ sess_key = Zeros(SESS_KEY_SIZE)
    /\ sequence_number = 0
    /\ smb3signingkey = Zeros(SMB3_SIGN_KEY_SIZE)
    /\ srvPreauth = Zeros(PREAUTH_HASHVALUE_SIZE)
    /\ sessPreauth = Zeros(PREAUTH_HASHVALUE_SIZE)
    /\ last = Last("none", 0, FALSE, <<>>, 0, <<>>, FALSE)
    /\ authInfo = NoVerifier(0)
    /\ preauthLog = <<>>
    /\ derived = {}
    /\ nops = 0
    /\ nfail = 0
    /\ conc = NoConc

(***************************************************************************)
(* Session-setup operations.                                               *)
(***************************************************************************)
\* a call may start: the budget is left and no earlier call has faulted
MayCall(max) == nops < max /\ ~last.fault

DecodeNegotiate ==
    /\ MayCall(MaxOps)
    /\ \E negblob \in NegotiateInputs :
         \E r \in {decode_ntlmssp_negotiate_blob(negblob, client_flags)} :
             /\ client_flags' = r.client_flags
             /\ last' = Last("decode_negotiate", r.rc, FALSE, <<>>, Len(negblob), Hdr(negblob), FALSE)
    /\ authInfo' = NoVerifier(0)
    /\ nops' = nops + 1
    /\ UNCHANGED <<dialect, netbios_name, secmech, nalloc, cryptkey, sess_key,
                   sequence_number, smb3signingkey, srvPreauth, sessPreauth,
                   preauthLog, derived, nfail, conc>>

BuildChallenge ==
    /\ MayCall(MaxOps)
    /\ \E rand \in Challenges :
       \E ub \in (IF Len(netbios_name) + 1 > NAME_UNITS THEN {"fault", "intact"} ELSE {"intact"}) :
         \E r \in {build_ntlmssp_challenge_blob(ChgBufInit, client_flags, rand, ub)} :
             /\ cryptkey' = r.cryptkey
             /\ last' = Last("build_challenge", 0, r.fault, r.buf, r.blob_len, <<>>, FALSE)
    /\ authInfo' = NoVerifier(0)
    /\ nops' = nops + 1
    /\ UNCHANGED <<dialect, netbios_name, secmech, nalloc, client_flags, sess_key,
                   sequence_number, smb3signingkey, srvPreauth, sessPreauth,
                   preauthLog, derived, nfail, conc>>

DecodeAuthenticate ==
    /\ MayCall(MaxOps)
    /\ \E in \in AuthInputs(cryptkey) : \E ub \in UBOutcomes(in.buf) :
         \E r \in {decode_ntlmssp_authenticate_blob(in.buf, secmech.hmacmd5, nalloc,
                        sess_key, sequence_number, in.alloc, in.failAt, ub)} :
             /\ secmech' = [secmech EXCEPT !.hmacmd5 = r.slot]
             /\ nalloc' = r.n
             /\ sess_key' = r.sess_key
             /\ sequence_number' = r.sequence_number
             /\ authInfo' = r.info
             /\ last' = Last("decode_authenticate", r.rc, r.fault, <<>>, Len(in.buf), Hdr(in.buf),
                                in.alloc # "ok" \/ in.failAt # 0)
    /\ nops' = nops + 1
    /\ UNCHANGED <<dialect, netbios_name, client_flags, cryptkey, smb3signingkey,
                   srvPreauth, sessPreauth, preauthLog, derived, nfail, conc>>

\* process_ntlmv2 called with the server's own name (domain_name == netbios_name)
CallProcessNtlmv2 ==
    /\ MayCall(MaxOps)
    /\ \E good \in BOOLEAN : \E f \in {0, 7, 16} :
         \E rsp \in {RefNtlmv2Response(cryptkey, netbios_name, ClientBlob)} :
         \E r \in {process_ntlmv2(secmech.hmacmd5, nalloc, sess_key,
                      (IF good THEN rsp ELSE Mutate(rsp, 5)) \o ClientBlob,
                      Len(ClientBlob), netbios_name, TRUE, "ok", f, FALSE)} :
             /\ secmech' = [secmech EXCEPT !.hmacmd5 = r.slot]
             /\ nalloc' = r.n
             /\ sess_key' = r.sess_key
             /\ authInfo' = [NoVerifier(0) EXCEPT
                                 !.verifier = "process_ntlmv2",
                                 !.blen = Len(ClientBlob),
                                 !.nt = (IF good THEN rsp ELSE Mutate(rsp, 5)) \o ClientBlob,
                                 !.name = netbios_name]
             /\ last' = Last("process_ntlmv2", r.rc, r.fault, <<>>, 0, <<>>, f # 0)
    /\ nops' = nops + 1
    /\ UNCHANGED <<dialect, netbios_name, client_flags, cryptkey, sequence_number,
                   smb3signingkey, srvPreauth, sessPreauth, preauthLog, derived, nfail, conc>>

Next == DecodeNegotiate \/ BuildChallenge \/ DecodeAuthenticate \/ CallProcessNtlmv2

Spec == Init /\ [][Next]_vars

(***************************************************************************)
(* Signing, key derivation and pre-authentication hashing on a session     *)
(* that has authenticated.                                                 *)
(***************************************************************************)
\* the Authenticate message of a client that knows the password
EstablishingMsg(c) ==
    Ntlmv2Msg(ClientDomain, RefNtlmv2Response(c, ClientDomain, ClientBlob), ClientBlob)

SignChallenges == { <<1, 2, 3, 4, 5, 6, 7, 8>> }

\* the state after the challenge went out and the Authenticate message of
\* the client was accepted
InitSign ==
    /\ dialect \in Dialects
    /\ netbios_name \in { <<70, 83, 82, 86>> }
    /\ client_flags = {}
    /\ cryptkey \in SignChallenges
    /\ \E r \in {decode_ntlmssp_authenticate_blob(EstablishingMsg(cryptkey), NullSlot, 0,
                       Zeros(SESS_KEY_SIZE), 0, "ok", 0, "zeros")} :
         /\ secmech = [s \in Slots |-> IF s = "hmacmd5" THEN r.slot ELSE NullSlot]
         /\ nalloc = r.n
         /\ sess_key = r.sess_key
         /\ sequence_number = r.sequence_number
    /\ smb3signingkey = Zeros(SMB3_SIGN_KEY_SIZE)
    /\ srvPreauth = Zeros(PREAUTH_HASHVALUE_SIZE)
    /\ sessPreauth = Zeros(PREAUTH_HASHVALUE_SIZE)
    /\ last = Last("none", 0, FALSE, <<>>, 0, <<>>, FALSE)
    /\ authInfo = NoVerifier(0)
    /\ preauthLog = <<>>
    /\ derived = {}
    /\ nops = 0
    /\ nfail = 0
    /\ conc = NoConc

\* the packets the signers are given
PDUs == { <<254, 83, 77, 66, 64, 0, 1, 0>> }

\* the negotiate and session-setup messages: 4-byte big-endian length, then
\* the message (the second buffer is longer than the length it declares)
PreauthMsgs == { BE32(6) \o <<254, 83, 77, 66, 0, 0>>,
                 BE32(5) \o <<254, 83, 77, 66, 1, 7>> }

Fault(alloc, alloc2, failAt) == [alloc |-> alloc, alloc2 |-> alloc2, failAt |-> failAt]

NoFault == Fault("ok", "ok", 0)

\* what the environment may decide for a handler with one allocation step
\* and k primitive steps
Faults(k) ==
    {NoFault} \cup { Fault(a, "ok", 0) : a \in AllocOutcomes \ {"ok"} }
              \cup { Fault("ok", "ok", f) : f \in 1..k }

\* ... for the key deriver (two allocation steps)
KdfFaults ==
    Faults(NumKdfSteps) \cup { Fault("ok", a, 0) : a \in AllocOutcomes \ {"ok"} }

\* ... for a handler that allocates nothing
StepFaults(k) == { Fault("ok", "ok", f) : f \in 0..k }

\* a call may start with the decision f of the environment
MaySign(f) == MayCall(MaxSignOps) /\ (f # NoFault => nfail < MaxSignFail)

Count(f) == IF f # NoFault THEN nfail + 1 ELSE nfail

signUnchanged == <<dialect, netbios_name, client_flags, cryptkey, sess_key,
                   sequence_number, authInfo, conc>>

Smb1Sign ==
    /\ \E buf \in PDUs : \E f \in Faults(4) :
         /\ MaySign(f)
         /\ \E r \in {smb1_sign_smbpdu(secmech.md5, sess_key, buf, f.alloc, nalloc, f.failAt)} :
              /\ secmech' = [secmech EXCEPT !.md5 = r.slot]
              /\ nalloc' = r.n
              /\ last' = Last("smb1_sign", r.rc, r.fault, r.sig, Len(buf), <<>>, f # NoFault)
         /\ nfail' = Count(f)
    /\ nops' = nops + 1
    /\ UNCHANGED <<signUnchanged, smb3signingkey, srvPreauth, sessPreauth, preauthLog, derived>>

Smb2Sign ==
    /\ \E buf \in PDUs : \E f \in Faults(4) :
         /\ MaySign(f)
         /\ \E r \in {smb2_sign_smbpdu(secmech.hmacsha256, sess_key, buf, f.alloc, nalloc,
                                        f.failAt)} :
              /\ secmech' = [secmech EXCEPT !.hmacsha256 = r.slot]
              /\ nalloc' = r.n
              /\ last' = Last("smb2_sign", r.rc, r.fault, r.sig, Len(buf), <<>>, f # NoFault)
         /\ nfail' = Count(f)
    /\ nops' = nops + 1
    /\ UNCHANGED <<signUnchanged, smb3signingkey, srvPreauth, sessPreauth, preauthLog, derived>>

Smb3Sign ==
    /\ \E buf \in PDUs : \E f \in StepFaults(4) :
         /\ MaySign(f)
         /\ \E r \in {smb3_sign_smbpdu(secmech.cmacaes, smb3signingkey, buf, nalloc, f.failAt)} :
              /\ secmech' = [secmech EXCEPT !.cmacaes = r.slot]
              /\ nalloc' = r.n
              /\ last' = Last("smb3_sign", r.rc, r.fault, r.sig, Len(buf), <<>>, f # NoFault)
         /\ nfail' = Count(f)
    /\ nops' = nops + 1
    /\ UNCHANGED <<signUnchanged, smb3signingkey, srvPreauth, sessPreauth, preauthLog, derived>>

\* compute_smb3xsigningkey(sess, chann->smb3signingkey, SMB3_SIGN_KEY_SIZE)
ComputeSmb3xSigningKey ==
    /\ \E f \in KdfFaults :
         /\ MaySign(f)
         /\ \E r \in {compute_smb3xsigningkey(secmech.hmacsha256, secmech.cmacaes, nalloc,
                            sess_key, dialect, sessPreauth, smb3signingkey,
                            SMB3_SIGN_KEY_SIZE, f.alloc, f.alloc2, f.failAt)} :
              /\ secmech' = [secmech EXCEPT !.hmacsha256 = r.hs, !.cmacaes = r.cs]
              /\ nalloc' = r.n
              /\ smb3signingkey' = r.key
              /\ last' = Last("compute_smb3xsigningkey", r.rc, r.fault, r.key,
                              SMB3_SIGN_KEY_SIZE, <<>>, f # NoFault)
              /\ derived' = IF r.rc # 0 THEN derived
                            ELSE derived \cup
                                 { [sk |-> Bytes(sess_key, 0, SMB2_NTLMV2_SESSKEY_SIZE),
                                    preauth |-> sessPreauth, key |-> r.key,
                                    at |-> nops, after |-> last.op] }
         /\ nfail' = Count(f)
    /\ nops' = nops + 1
    /\ UNCHANGED <<signUnchanged, srvPreauth, sessPreauth, preauthLog>>

\* calc_preauth_integrity_hash on a negotiate or session-setup message, and
\* the caller storing the result as the running hash
PreauthIntegrity ==
    /\ \E in \in ({ [buf |-> b, hash_id |-> SMB2_PREAUTH_INTEGRITY_SHA512, f |-> NoFault] :
                      b \in PreauthMsgs }
                  \cup { [buf |-> b, hash_id |-> h, f |-> f] :
                          b \in {BE32(6) \o <<254, 83, 77, 66, 0, 0>>},
                          h \in {SMB2_PREAUTH_INTEGRITY_SHA512}, f \in Faults(4) }
                  \cup { [buf |-> b, hash_id |-> h, f |-> NoFault] :
                          b \in {BE32(6) \o <<254, 83, 77, 66, 0, 0>>},
                          h \in {SMB2_PREAUTH_INTEGRITY_SHA512 + 1} }) :
         /\ MaySign(in.f)
         /\ \E r \in {calc_preauth_integrity_hash(secmech.sha512, nalloc, srvPreauth,
                            in.hash_id, in.buf, in.f.alloc, in.f.failAt)} :
              /\ secmech' = [secmech EXCEPT !.sha512 = r.slot]
              /\ nalloc' = r.n
              /\ srvPreauth' = update_preauth_hash(r.rc, r.sig, srvPreauth)
              /\ sessPreauth' = update_preauth_hash(r.rc, r.sig, sessPreauth)
              /\ preauthLog' = IF r.rc # 0 THEN preauthLog
                               ELSE Append(preauthLog, in.buf)
              /\ last' = Last("calc_preauth_integrity_hash", r.rc, r.fault, r.sig,
                              Len(in.buf), <<in.hash_id>>, in.f # NoFault)
         /\ nfail' = Count(in.f)
    /\ nops' = nops + 1
    /\ UNCHANGED <<signUnchanged, smb3signingkey, derived>>

NextSign ==
    Smb1Sign \/ Smb2Sign \/ Smb3Sign \/ ComputeSmb3xSigningKey \/ PreauthIntegrity

SpecSign == InitSign /\ [][NextSign]_vars

(***************************************************************************)
(* Requests in flight.  conc.req[r] is the request running on channel r of *)
(* the session: the operation, its position in the code, the channel's     *)
(* signing key, the last finalize output.  Channel 1 is bound to the       *)
(* connection of the session (sess->server, the cache secmech); channel 2  *)
(* is bound to a second connection whose CMAC context is conc.srv2.        *)
(* compute_smb3xsigningkey works on sess->server for every channel;        *)
(* smb3_sign_smbpdu works on chann->server.  conc.live is the set of       *)
(* handles allocated and not freed; conc.serial says whether the           *)
(* dispatcher runs one request to completion before the next.  The         *)
(* allocators and the crypto calls take no lock, so a request's steps      *)
(* interleave with the other's at each access to the cache.                *)
(***************************************************************************)
\* an allocator without the "already allocated" test
Populated_never(name, slot) == FALSE

\* the "already allocated" test of crypto_<name>_alloc
Populated(name, slot) ==
    IF name \in {"md5", "hmacsha256"} THEN slot.tfm # 0 ELSE slot.sdesc # 0

\* the handles a slot refers to
HandlesOf(slot) ==
    { h \in { <<"tfm", slot.tfm>>, <<"desc", slot.sdesc>> } : h[2] # 0 }

\* the handles some slot refers to
Referenced == UNION { HandlesOf(secmech[s]) : s \in Slots } \cup HandlesOf(conc.srv2)

\* the session is established; the HMAC-SHA256 and CMAC contexts of
\* sess->server are either still unallocated or left by an earlier derivation
InitConc ==
    /\ dialect = SMB30_PROT_ID
    /\ netbios_name \in { <<70, 83, 82, 86>> }
    /\ client_flags = {}
    /\ cryptkey \in SignChallenges
    /\ \E pre \in BOOLEAN : \E ser \in BOOLEAN :
       \E r \in {decode_ntlmssp_authenticate_blob(EstablishingMsg(cryptkey), NullSlot, 0,
                       Zeros(SESS_KEY_SIZE), 0, "ok", 0, "zeros")} :
         LET hs == IF pre THEN crypto_hmacsha256_alloc(NullSlot, "ok", r.n)
                   ELSE [slot |-> NullSlot, rc |-> 0, n |-> r.n]
             cs == IF pre THEN crypto_cmac_alloc(NullSlot, "ok", hs.n)
                   ELSE [slot |-> NullSlot, rc |-> 0, n |-> hs.n]
             c2 == crypto_cmac_alloc(NullSlot, "ok", cs.n)
         IN  /\ secmech = [s \in Slots |->
                             CASE s = "hmacmd5" -> r.slot
                               [] s = "hmacsha256" -> hs.slot
                               [] s = "cmacaes" -> cs.slot
                               [] OTHER -> NullSlot]
             /\ nalloc = c2.n
             /\ sess_key = r.sess_key
             /\ sequence_number = r.sequence_number
             /\ conc = [NoConc EXCEPT !.serial = ser, !.srv2 = c2.slot,
                                      !.live = HandlesOf(r.slot) \cup HandlesOf(hs.slot)
                                                 \cup HandlesOf(cs.slot)
                                                 \cup HandlesOf(c2.slot)]
    /\ smb3signingkey = Zeros(SMB3_SIGN_KEY_SIZE)
    /\ srvPreauth = Zeros(PREAUTH_HASHVALUE_SIZE)
    /\ sessPreauth = Zeros(PREAUTH_HASHVALUE_SIZE)
    /\ last = Last("none", 0, FALSE, <<>>, 0, <<>>, FALSE)
    /\ authInfo = NoVerifier(0)
    /\ preauthLog = <<>>
    /\ derived = {}
    /\ nops = 0
    /\ nfail = 0

InFlight(r) == conc.req[r].pc \notin {"idle", "done"}

\* request r may take a step: nothing has crashed, and a serializing
\* dispatcher has no other request in flight
MayStep(r) ==
    /\ \A q \in Requests : ~conc.req[q].fault
    /\ conc.serial => \A q \in Requests \ {r} : ~InFlight(q)

\* the context the primitive steps of request r go through:
\* sess->server->secmech.hmacsha256 for the derivation,
\* chann->server->secmech.cmacaes for the signer
CtxOf(r) ==
    IF conc.req[r].op = "derive" THEN <<1, "hmacsha256">>
    ELSE <<r, "cmacaes">>

CtxSlot(r) ==
    IF CtxOf(r)[1] = 1 THEN secmech[CtxOf(r)[2]] ELSE conc.srv2

\* the primitive steps of request r, on the inputs it was called with
ReqSteps(r) ==
    IF conc.req[r].op = "derive" THEN KdfSteps(sess_key, dialect, sessPreauth)
    ELSE Smb3SignSteps(conc.req[r].key, CHOOSE b \in PDUs : TRUE)

ReqAlg(r) == IF conc.req[r].op = "derive" THEN "hmacsha256" ELSE "cmacaes"

concUnchanged == <<dialect, netbios_name, client_flags, cryptkey, sess_key,
                   sequence_number, authInfo, smb3signingkey, srvPreauth, sessPreauth,
                   last, preauthLog, derived, nops, nfail>>

\* the dispatcher hands channel r a request: a key derivation (which starts
\* by clearing the key field) or the signing of a packet
ReqStart ==
    /\ \E r \in Requests : \E op \in {"derive", "sign"} :
         /\ conc.req[r].pc = "idle"
         /\ MayStep(r)
         /\ conc' = [conc EXCEPT !.req[r] =
                       [@ EXCEPT !.op = op,
                                 !.pc = IF op = "derive" THEN "hmacsha256_check" ELSE "steps",
                                 !.i = 1,
                                 !.key = IF op = "derive"
                                         THEN memset(@, 0, SMB3_SIGN_KEY_SIZE) ELSE @]]
    /\ UNCHANGED <<concUnchanged, secmech, nalloc>>

AllocPcs == { [name |-> n, at |-> a] : n \in {"hmacsha256", "cmacaes"},
                                        a \in {"check", "tfm", "desc"} }

PcOf(p) == p.name \o "_" \o p.at

\* where the deriver continues after crypto_<name>_alloc returned 0
AfterAlloc(name) == IF name = "hmacsha256" THEN "cmacaes_check" ELSE "steps"

\* crypto_<name>_alloc: the test of the slot and the early return
AllocCheck ==
    /\ \E r \in Requests : \E p \in AllocPcs :
         /\ p.at = "check" /\ conc.req[r].pc = PcOf(p)
         /\ MayStep(r)
         /\ conc' = [conc EXCEPT !.req[r].pc =
                        IF Populated(p.name, secmech[p.name]) THEN AfterAlloc(p.name)
                        ELSE PcOf([p EXCEPT !.at = "tfm"])]
    /\ UNCHANGED <<concUnchanged, secmech, nalloc>>

\* crypto_<name>_alloc: the transform is allocated and stored in the slot
AllocTfm ==
    /\ \E r \in Requests : \E p \in AllocPcs :
         /\ p.at = "tfm" /\ conc.req[r].pc = PcOf(p)
         /\ MayStep(r)
         /\ secmech' = [secmech EXCEPT ![p.name].tfm = nalloc + 1, ![p.name].key = <<>>]
         /\ conc' = [conc EXCEPT !.live = @ \cup { <<"tfm", nalloc + 1>> },
                                 !.req[r].allocated = @ \cup {p.name},
                                 !.req[r].pc = PcOf([p EXCEPT !.at = "desc"])]
    /\ nalloc' = nalloc + 1
    /\ UNCHANGED concUnchanged

\* crypto_<name>_alloc: the descriptor is allocated and stored in the slot
AllocDesc ==
    /\ \E r \in Requests : \E p \in AllocPcs :
         /\ p.at = "desc" /\ conc.req[r].pc = PcOf(p)
         /\ MayStep(r)
         /\ secmech' = [secmech EXCEPT ![p.name].sdesc = nalloc + 1, ![p.name].data = <<>>]
         /\ conc' = [conc EXCEPT !.live = @ \cup { <<"desc", nalloc + 1>> },
                                 !.req[r].pc = AfterAlloc(p.name)]
    /\ nalloc' = nalloc + 1
    /\ UNCHANGED concUnchanged

\* one crypto_shash_setkey / _init / _update / _final of the request, on
\* whatever the context holds at that moment
PrimitiveStep ==
    /\ \E r \in Requests :
         /\ conc.req[r].pc = "steps"
         /\ MayStep(r)
         /\ LET q == conc.req[r]
                s == ReqSteps(r)[q.i]
                x == ApplyStep([Run(CtxSlot(r)) EXCEPT !.out = q.out], ReqAlg(r), s)
                done == q.i = Len(ReqSteps(r))
            IN  IF StepOnNull(CtxSlot(r), s)
                THEN /\ conc' = [conc EXCEPT !.req[r].fault = TRUE, !.req[r].pc = "done"]
                     /\ UNCHANGED secmech
                ELSE /\ conc' = [conc EXCEPT
                                   !.srv2 = IF CtxOf(r)[1] = 1 THEN @ ELSE x.slot,
                                   !.req[r].out = x.out,
                                   !.req[r].i = IF done THEN @ ELSE @ + 1,
                                   !.req[r].pc = IF ~done THEN "steps"
                                                 ELSE IF q.op = "derive" THEN "copy"
                                                 ELSE "done"]
                     /\ secmech' = IF CtxOf(r)[1] = 1
                                   THEN [secmech EXCEPT ![CtxOf(r)[2]] = x.slot]
                                   ELSE secmech
    /\ UNCHANGED <<concUnchanged, nalloc>>

\* memcpy(key, hashptr, key_size) at the end of the derivation
CopyKey ==
    /\ \E r \in Requests :
         /\ conc.req[r].pc = "copy"
         /\ MayStep(r)
         /\ conc' = [conc EXCEPT
                       !.req[r].key = Memcpy(@, 0, Bytes(conc.req[r].out, 0,
                                                          SMB3_SIGN_KEY_SIZE)),
                       !.req[r].pc = "done"]
    /\ UNCHANGED <<concUnchanged, secmech, nalloc>>

NextConc ==
    ReqStart \/ AllocCheck \/ AllocTfm \/ AllocDesc \/ PrimitiveStep \/ CopyKey

SpecConc == InitConc /\ [][NextConc]_vars

(***************************************************************************)
(* Properties of the session-setup operations.                             *)
(***************************************************************************)
\* the step is a call (not a stuttering step)
IsCall == nops' # nops

\* C1: a verifier (process_ntlm, process_ntlmv2) that returns a failure leaves
\* the session key and the sequence number as they were before the call
C1_FailedVerifierCommitsNothing ==
    [][ (IsCall /\ authInfo'.verifier # "none" /\ ~last'.fault /\ last'.rc # 0)
            => (sess_key' = sess_key /\ sequence_number' = sequence_number) ]_vars

\* C2: when E_P24 does not fail, process_ntlm returns success exactly when the
\* client response equals the computed response in all 24 byte positions
C2_NtlmAcceptsOnlyEqualResponse ==
    (authInfo.verifier = "process_ntlm" /\ ~last.fault /\ ~last.inj)
        => (last.rc = 0 <=> authInfo.nt = RefNtlmResponse(cryptkey))

\* C3: when no step fails, process_ntlmv2 returns success exactly when the
\* 16-byte value of the response equals HMAC-MD5 keyed by the NTLMv2 hash of
\* the name passed in over (server challenge, client blob); on success the
\* session key is HMAC-MD5 keyed by that hash over the computed response
C3_Ntlmv2Verification ==
    (authInfo.verifier = "process_ntlmv2" /\ ~last.fault /\ ~last.inj /\ authInfo.blen >= 0)
        => LET hash == RefNtlmv2Hash(authInfo.name)
               blob == SubSeq(authInfo.nt, CIFS_HMAC_MD5_HASH_SIZE + 1,
                              CIFS_HMAC_MD5_HASH_SIZE + authInfo.blen)
               rsp  == Mac("hmacmd5", hash, cryptkey \o blob)
           IN  /\ last.rc = 0 <=> SubSeq(authInfo.nt, 1, CIFS_HMAC_MD5_HASH_SIZE) = rsp
               /\ last.rc = 0 =>
                    SubSeq(sess_key, 1, CIFS_HMAC_MD5_HASH_SIZE) = Mac("hmacmd5", hash, rsp)

\* an accepted NTLMv2 authentication under the client-claimed domain name
C3_Witness ==
    /\ authInfo.verifier = "process_ntlmv2" /\ last.op = "decode_authenticate"
    /\ last.rc = 0 /\ ~last.fault /\ ~last.inj
    /\ authInfo.name = ClientDomain /\ authInfo.name # netbios_name
    /\ authInfo.blen = Len(ClientBlob)
    /\ cryptkey \in Challenges

\* the buffer of the call recorded in l is shorter than the fixed message
\* size min or does not start with the NTLMSSP signature
Malformed(l, min) == l.len < min \/ SubSeq(l.hdr, 1, 8) # NTLMSSP_SIGNATURE

MinSize(l) ==
    IF l.op = "decode_negotiate" THEN SIZEOF_NEGOTIATE_MESSAGE
    ELSE SIZEOF_AUTHENTICATE_MESSAGE

\* C4: both decoders reject a short or wrongly signed buffer with an error
\* and touch nothing (client flags, session key, sequence number, primitive
\* cache; no verifier runs); decode_negotiate on a valid buffer stores the
\* message's negotiate flags and changes nothing else
C4_MalformedBlobRejected ==
    [][ (IsCall /\ last'.op \in {"decode_negotiate", "decode_authenticate"})
            => /\ Malformed(last', MinSize(last'))
                    => /\ last'.rc # 0 /\ ~last'.fault
                       /\ authInfo'.verifier = "none"
                       /\ UNCHANGED <<client_flags, sess_key, sequence_number,
                                      secmech, nalloc, cryptkey>>
               /\ (last'.op = "decode_negotiate" /\ ~Malformed(last', MinSize(last')))
                    => /\ last'.rc = 0
                       /\ client_flags' = ReadFlags(last'.hdr, NEG_NegotiateFlags)
                       /\ UNCHANGED <<sess_key, sequence_number, secmech, nalloc,
                                      cryptkey, dialect, netbios_name, smb3signingkey,
                                      srvPreauth, sessPreauth>> ]_vars

\* a full-size Authenticate message with a wrong signature, rejected on a
\* session that already holds a key and a sequence number
C4_Witness ==
    /\ last.op = "decode_authenticate"
    /\ last.len >= SIZEOF_AUTHENTICATE_MESSAGE
    /\ SubSeq(last.hdr, 1, 8) # NTLMSSP_SIGNATURE
    /\ last.rc = -EINVAL
    /\ sequence_number = 1
    /\ sess_key # Zeros(SESS_KEY_SIZE)

\* C5: every descriptor that decode_authenticate hands to a verifier lies
\* inside the received blob, and the NTLMv2 blob length is not negative
C5_DescriptorsInsideBlob ==
    (last.op = "decode_authenticate" /\ authInfo.verifier # "none")
        => /\ authInfo.nt_off + authInfo.nt_len <= authInfo.blob_len
           /\ authInfo.verifier = "process_ntlmv2"
                => /\ authInfo.dom_off + authInfo.dom_len <= authInfo.blob_len
                   /\ authInfo.blen >= 0

\* the attributes of a target-info list starting at byte position pos, up to
\* and including the terminator (at most k entries)
RECURSIVE ParseTargetInfo(_, _, _)
ParseTargetInfo(buf, pos, k) ==
    IF k = 0 \/ pos + 4 > Len(buf) THEN <<>>
    ELSE LET t == ReadLE16(buf, pos)
             l == ReadLE16(buf, pos + 2)
         IN  IF t = 0 /\ l = 0 THEN << [type |-> 0, len |-> 0, content |-> <<>>] >>
             ELSE IF pos + 4 + l > Len(buf) THEN <<>>
             ELSE << [type |-> t, len |-> l, content |-> Bytes(buf, pos + 4, l)] >>
                    \o ParseTargetInfo(buf, pos + 4 + l, k - 1)

\* C9: for every configured server name, the challenge blob carries the four
\* name attributes and the terminator, TargetInfoArray.Length =
\* MaximumLength = 4*(4+len)+4, TargetInfoArray.BufferOffset =
\* TargetName.BufferOffset + len, the returned length is header + len +
\* TargetInfoArray.Length, and nothing beyond it is written
C9_ChallengeTargetInfo ==
    last.op = "build_challenge"
        => /\ ~last.fault
           /\ LET name == smb_strtoUTF16(netbios_name)
                  len  == Len(name)
                  b    == last.out
              IN  /\ ParseTargetInfo(b, SIZEOF_CHALLENGE_MESSAGE + len, 6)
                        = [t \in 1..5 |->
                             IF t = 5 THEN [type |-> 0, len |-> 0, content |-> <<>>]
                             ELSE [type |-> t, len |-> len, content |-> name]]
                  /\ SecBufLength(b, CHG_TargetInfoArray) = 4 * (4 + len) + 4
                  /\ SecBufMaximumLength(b, CHG_TargetInfoArray) = 4 * (4 + len) + 4
                  /\ SecBufOffset(b, CHG_TargetInfoArray)
                        = SecBufOffset(b, CHG_TargetName) + len
                  /\ last.len = SIZEOF_CHALLENGE_MESSAGE + len + 4 * (4 + len) + 4
                  /\ SubSeq(b, last.len + 1, Len(b))
                        = SubSeq(ChgBufInit, last.len + 1, Len(b))

(***************************************************************************)
(* Properties of signing, key derivation and pre-authentication hashing.   *)
(***************************************************************************)
Signers == {"smb1_sign", "smb2_sign", "smb3_sign"}

SignerSlot(op) ==
    CASE op = "smb1_sign" -> "md5"
      [] op = "smb2_sign" -> "hmacsha256"
      [] op = "smb3_sign" -> "cmacaes"

\* C6: a packet signer, whatever ran before it, returns an error when its
\* primitive context is not available, never runs a step on an unallocated
\* context, and returns an error when one of its steps reports one
C6_SignersFailCleanly ==
    last.op \in Signers
        => /\ ~last.fault
           /\ secmech[SignerSlot(last.op)].sdesc = 0 => last.rc # 0
           /\ last.inj => last.rc # 0

\* the KDF input of the specification: counter, NUL-terminated label, zero
\* byte, context, length
RefKdfInput(d, preauth) ==
    <<0, 0, 0, 1>>
        \o (IF d = SMB311_PROT_ID
            THEN <<83, 77, 66, 83, 105, 103, 110, 105, 110, 103, 75, 101, 121, 0>>
            ELSE <<83, 77, 66, 50, 65, 69, 83, 67, 77, 65, 67, 0>>)
        \o <<0>>
        \o (IF d = SMB311_PROT_ID THEN preauth ELSE <<83, 109, 98, 83, 105, 103, 110, 0>>)
        \o <<0, 0, 0, 128>>

\* the leftmost size bytes of HMAC-SHA256 keyed by sk over the KDF input
RefSigningKey(sk, d, preauth, size) ==
    SubSeq(Mac("hmacsha256", sk, RefKdfInput(d, preauth)), 1, size)

\* C7: after compute_smb3xsigningkey the key field holds the leftmost
\* key_size bytes of the 32-byte HMAC-SHA256 result when it returned 0, and
\* is entirely zero when it failed at any step
C7_KeyAllOrNothing ==
    last.op = "compute_smb3xsigningkey"
        => /\ ~last.fault
           /\ Len(Mac("hmacsha256", <<>>, <<>>)) = SMB2_HMACSHA256_SIZE
           /\ IF last.rc = 0
              THEN smb3signingkey
                     = RefSigningKey(SubSeq(sess_key, 1, SMB2_NTLMV2_SESSKEY_SIZE),
                                     dialect, sessPreauth, SMB3_SIGN_KEY_SIZE)
              ELSE smb3signingkey = Zeros(SMB3_SIGN_KEY_SIZE)

\* a derivation that failed on a channel whose key had been derived before
C7_Witness ==
    /\ last.op = "compute_smb3xsigningkey"
    /\ last.rc # 0 /\ last.inj
    /\ derived # {}
    /\ smb3signingkey = Zeros(SMB3_SIGN_KEY_SIZE)

\* C8: after a derivation, every key derived so far is HMAC-SHA256 keyed by
\* the session key over (00 00 00 01, label, 00, context, 00 00 00 80),
\* whatever ran before its derivation; equal inputs gave equal keys; for
\* SMB 3.1.1 different pre-authentication hashes gave different keys; for the
\* earlier dialects the key does not depend on the pre-authentication hash
C8_KeyIsFunctionOfInputs ==
    (last.op = "compute_smb3xsigningkey" /\ last.rc = 0)
        => /\ \A r \in derived :
                r.key = RefSigningKey(r.sk, dialect, r.preauth, SMB3_SIGN_KEY_SIZE)
           /\ \A r1, r2 \in derived :
                r1.sk = r2.sk
                   => /\ r1.preauth = r2.preauth => r1.key = r2.key
                      /\ (dialect = SMB311_PROT_ID /\ r1.preauth # r2.preauth)
                            => r1.key # r2.key
                      /\ dialect # SMB311_PROT_ID => r1.key = r2.key

\* two derivations from the same inputs, the second right after
\* smb2_sign_smbpdu used the same HMAC-SHA256 context
C8_Witness ==
    \E r1, r2 \in derived :
        /\ last.op = "compute_smb3xsigningkey" /\ last.rc = 0
        /\ r1.at < r2.at
        /\ r2.after = "smb2_sign"
        /\ r1.sk = r2.sk /\ r1.preauth = r2.preauth
        /\ secmech.hmacsha256.sdesc # 0

\* the message a hashed buffer carries: the bytes after the 4-byte length,
\* as many as the length declares
DeclaredMessage(buf) == SubSeq(buf, 5, 4 + buf[4])

\* SHA-512 over the running hash followed by the message
RefPreauthStep(running, m) == Mac("sha512", <<>>, running \o m)

\* the left fold of RefPreauthStep over the first k buffers of log
RECURSIVE RefPreauthFold(_, _)
RefPreauthFold(log, k) ==
    IF k = 0 THEN Zeros(PREAUTH_HASHVALUE_SIZE)
    ELSE RefPreauthStep(RefPreauthFold(log, k - 1), DeclaredMessage(log[k]))

Orders(n) == {p \in [1..n -> 1..n] : \A i, j \in 1..n : p[i] = p[j] => i = j}

Reorder(log, p) == [i \in 1..Len(log) |-> log[p[i]]]

\* C10: a hasher call returns SHA-512 over (running hash, message of the
\* declared length); with every result stored back, the value the SMB 3.1.1
\* key derivation consumes is the left fold over the messages in the order
\* processed; the same messages in another order are processed without an
\* error and give a different value and a different signing key
C10_PreauthLeftFold ==
    LET n == Len(preauthLog)
        sk == SubSeq(sess_key, 1, SMB2_NTLMV2_SESSKEY_SIZE)
    IN  /\ last.op \in {"calc_preauth_integrity_hash", "compute_smb3xsigningkey"}
              => /\ srvPreauth = RefPreauthFold(preauthLog, n)
                 /\ sessPreauth = RefPreauthFold(preauthLog, n)
        /\ (last.op = "calc_preauth_integrity_hash" /\ last.rc = 0)
              => last.out = RefPreauthStep(RefPreauthFold(preauthLog, n - 1),
                                           DeclaredMessage(preauthLog[n]))
        /\ (last.op = "calc_preauth_integrity_hash" /\ ~last.inj
                /\ last.hdr = <<SMB2_PREAUTH_INTEGRITY_SHA512>>)
              => last.rc = 0 /\ ~last.fault
        /\ (last.op = "compute_smb3xsigningkey" /\ last.rc = 0
                /\ dialect = SMB311_PROT_ID)
              => smb3signingkey = RefSigningKey(sk, dialect,
                                      RefPreauthFold(preauthLog, n), SMB3_SIGN_KEY_SIZE)
        /\ (last.op = "calc_preauth_integrity_hash" /\ last.rc = 0)
              => \A p \in Orders(n) :
                   Reorder(preauthLog, p) # preauthLog
                      => /\ RefPreauthFold(Reorder(preauthLog, p), n) # srvPreauth
                         /\ RefSigningKey(sk, SMB311_PROT_ID,
                                          RefPreauthFold(Reorder(preauthLog, p), n),
                                          SMB3_SIGN_KEY_SIZE)
                              # RefSigningKey(sk, SMB311_PROT_ID, srvPreauth,
                                              SMB3_SIGN_KEY_SIZE)

\* an SMB 3.1.1 signing key derived after two different messages were hashed
C10_Witness ==
    /\ last.op = "compute_smb3xsigningkey" /\ last.rc = 0
    /\ dialect = SMB311_PROT_ID
    /\ Len(preauthLog) = 2
    /\ preauthLog[1] # preauthLog[2]
    /\ smb3signingkey # Zeros(SMB3_SIGN_KEY_SIZE)

(***************************************************************************)
(* Properties of requests running at the same time.                        *)
(***************************************************************************)
\* request r has applied a step to its context and has not finalized it yet
Using(r) == conc.req[r].pc = "steps" /\ conc.req[r].i > 1

Finished(r, op) == conc.req[r].pc = "done" /\ conc.req[r].op = op

\* C11: two channels of one session running key derivation or SMB3 signing
\* at the same time: in every interleaving a derivation ends with the key it
\* derives when running alone and a signer with the signature it computes
\* alone, and no two requests are in the middle of a computation on the same
\* primitive context
C11_ChannelsIndependent ==
    /\ \A r \in Requests :
         Finished(r, "derive")
            => /\ ~conc.req[r].fault
               /\ conc.req[r].key
                    = RefSigningKey(SubSeq(sess_key, 1, SMB2_NTLMV2_SESSKEY_SIZE),
                                    dialect, sessPreauth, SMB3_SIGN_KEY_SIZE)
    /\ \A r \in Requests :
         (Finished(r, "sign") /\ ~conc.req[r].fault)
            => conc.req[r].out
                 = Mac("cmacaes", SubSeq(conc.req[r].key, 1, SMB2_CMACAES_SIZE),
                       CHOOSE b \in PDUs : TRUE)
    /\ \A r, q \in Requests :
         (r # q /\ Using(r) /\ Using(q)) => CtxOf(r) # CtxOf(q)

\* the slots the allocators called by a handler fill
OpSlots(op) ==
    CASE op = "smb1_sign" -> {"md5"}
      [] op = "smb2_sign" -> {"hmacsha256"}
      [] op = "compute_smb3xsigningkey" -> {"hmacsha256", "cmacaes"}
      [] op = "calc_preauth_integrity_hash" -> {"sha512"}
      [] op \in {"decode_authenticate", "process_ntlmv2"} -> {"hmacmd5"}
      [] OTHER -> {}

\* the handlers that call their allocators whatever their input
AlwaysAllocating ==
    {"smb1_sign", "smb2_sign", "compute_smb3xsigningkey", "calc_preauth_integrity_hash"}

\* the handles of slot s are both set or both unset
Paired(slot) == slot.tfm = 0 <=> slot.sdesc = 0

\* the call recorded in l had no step made to fail and asked for a known hash
Unhindered(l) ==
    /\ ~l.inj /\ ~l.fault
    /\ l.op = "calc_preauth_integrity_hash" => l.hdr = <<SMB2_PREAUTH_INTEGRITY_SHA512>>

\* C12: with one operation at a time, in every state each slot has its
\* transform and its descriptor both set or both unset; the handles of a
\* populated slot are never replaced, and a handler whose slots are all
\* populated allocates nothing and, with no step failing, succeeds; a call
\* on an unset slot leaves it either unset (the allocation failed) or holding
\* a fresh pair of handles, and a call in which nothing fails populates it
C12_SlotAllocatedOnce ==
    [][ \A s \in Slots :
          /\ Paired(secmech[s]) /\ Paired(secmech'[s])
          /\ secmech[s].tfm # 0
                => /\ secmech'[s].tfm = secmech[s].tfm
                   /\ secmech'[s].sdesc = secmech[s].sdesc
          /\ (IsCall /\ \A t \in OpSlots(last'.op) : secmech[t].tfm # 0)
                => /\ nalloc' = nalloc
                   /\ (Unhindered(last') /\ last'.op \in AlwaysAllocating) => last'.rc = 0
          /\ (IsCall /\ s \in OpSlots(last'.op) /\ secmech[s].tfm = 0)
                => /\ \/ secmech'[s] = NullSlot
                      \/ /\ secmech'[s].tfm > nalloc /\ secmech'[s].tfm <= nalloc'
                         /\ secmech'[s].sdesc > nalloc /\ secmech'[s].sdesc <= nalloc'
                   /\ (Unhindered(last') /\ last'.op \in AlwaysAllocating) => secmech'[s].tfm # 0
          /\ (IsCall /\ s \notin OpSlots(last'.op))
                => HandlesOf(secmech'[s]) = HandlesOf(secmech[s]) ]_vars

\* smb1_sign_smbpdu allocates the MD5 pair after an earlier call had an
\* allocation fail half-way (one transform allocated and released) and left
\* every slot unset
C12_Witness ==
    /\ last.op = "smb1_sign" /\ last.rc = 0 /\ ~last.inj
    /\ nfail > 0
    /\ nalloc = secmech.hmacmd5.tfm + 2
    /\ secmech.md5.tfm = nalloc /\ secmech.md5.sdesc = nalloc
    /\ \A s \in Slots \ {"md5", "hmacmd5"} : secmech[s] = NullSlot

\* the requests that went through the allocation of slot name
Allocators(name) == { r \in Requests : name \in conc.req[r].allocated }

\* the handles that were allocated and that no slot refers to any more
Lost == conc.live \ Referenced

\* C13: the allocators test the slot and then fill it, with no mutual
\* exclusion; when the dispatcher runs one request to completion before the
\* next, no slot is allocated by two requests and no allocated handle is
\* lost (every live handle is the one its slot refers to)
C13_SerializedAllocatesOnce ==
    conc.serial
        => /\ \A name \in Slots : Cardinality(Allocators(name)) <= 1
           /\ Lost = {}
           /\ \A r \in Requests :
                ~InFlight(r) => \A name \in conc.req[r].allocated : Paired(secmech[name])

\* without that serialization: both requests found the CMAC slot unset, both
\* allocated, and the handles stored first were overwritten while still
\* allocated
C13_Witness ==
    /\ ~conc.serial
    /\ Allocators("cmacaes") = Requests
    /\ \E h \in Lost : h[1] = "desc"
    /\ \E h \in Lost : h[1] = "tfm"
    /\ \A r \in Requests : conc.req[r].pc \notin {"cmacaes_check", "cmacaes_tfm", "cmacaes_desc"}

====
